---- MODULE Spec2Model ----
(***************************************************************************)
(* Model of the news collector (lambda_news_collector.py): the batch       *)
(* driver lambda_handler, the image locator extract_image_from_article     *)
(* and the image archiver download_and_upload_image, together with the    *)
(* DynamoDB table and the S3 bucket they write to.                         *)
(*                                                                         *)
(* Python strings that the code inspects (startswith, "in", lower) are     *)
(* sequences of one-character strings.  Python's None is the value None.  *)
(***************************************************************************)
EXTENDS Integers, Sequences, FiniteSets, TLC

VARIABLES
    store,            \* the DynamoDB table: the items it holds, one per uid
    s3_objects,       \* the S3 bucket: the set of keys that hold an object
    clock,            \* seconds elapsed on the wall clock read by datetime.now()
    pc,               \* position of the running lambda_handler
    ki,               \* index of the keyword of the outer for loop
    items,            \* items of the current search result not yet processed
    collected_news,   \* lambda_handler's collected_news list
    total_collected,  \* lambda_handler's total_collected counter
    result,           \* the value lambda_handler returned (None while running)
    kwlog,            \* history: per keyword, what the run did for it
    last,             \* history: what the run did for the item processed last
    generated,        \* history: the uids generated in this run, with their second
    stored_log,       \* history: the items put_item stored in this run, in order
    probe,            \* a direct call of extract_image_from_article and its result
    query             \* a direct call of get_news_from_dynamodb and its result

vars == <<store, s3_objects, clock, pc, ki, items, collected_news,
          total_collected, result, kwlog, last, generated, stored_log, probe, query>>

-----------------------------------------------------------------------------
(* Python values *)

None == <<"None">>
NoTag == [name |-> "None"]
NoExc == "NoExc"          \* no exception was raised
EmptyStr == << >>

\* bool(v) of a string or None
Truthy(v) == v # None /\ v # EmptyStr

\* a or b
PyOr(a, b) == IF Truthy(a) THEN a ELSE b

\* s.startswith(p)
StartsWith(s, p) == Len(s) >= Len(p) /\ SubSeq(s, 1, Len(p)) = p

\* sub in s
Contains(s, sub) ==
    \E i \in 1..(Len(s) - Len(sub) + 1) : SubSeq(s, i, i + Len(sub) - 1) = sub

LowerChar(c) ==
    CASE c = "P" -> "p"
      [] c = "N" -> "n"
      [] c = "G" -> "g"
      [] c = "J" -> "j"
      [] OTHER -> c

\* s.lower()
Lower(s) == [i \in 1..Len(s) |-> LowerChar(s[i])]

-----------------------------------------------------------------------------
(* Exceptions: the classes the code raises and catches *)

ExcBases(e) ==
    CASE e = "Timeout" -> {"Timeout", "RequestException", "Exception"}
      [] e = "HTTPError" -> {"HTTPError", "RequestException", "Exception"}
      [] e = "RequestException" -> {"RequestException", "Exception"}
      [] e = "ClientError" -> {"ClientError", "Exception"}
      [] e = "EndpointConnectionError" ->
             {"EndpointConnectionError", "BotoCoreError", "Exception"}
      [] e = "ParserError" -> {"ParserError", "Exception"}
      [] OTHER -> {e, "Exception"}

\* does a try statement with these except clauses catch e
Caught(e, clauses) == \E c \in clauses : c \in ExcBases(e)

-----------------------------------------------------------------------------
(* extract_image_from_article *)

s_article == <<"a", "r", "t", "i", "c", "l", "e">>
s_news == <<"n", "e", "w", "s">>
s_content == <<"c", "o", "n", "t", "e", "n", "t">>
s_photo == <<"p", "h", "o", "t", "o">>
s_body == <<"b", "o", "d", "y">>
s_http == <<"h", "t", "t", "p">>
s_https_colon == <<"h", "t", "t", "p", "s", ":">>

\* re.compile(r'.*article.*|.*news.*|.*content.*|.*photo.*') on a class attribute
ImgClassRe(c) ==
    c # None /\ \E w \in {s_article, s_news, s_content, s_photo} : Contains(c, w)

\* re.compile(r'.*article.*|.*content.*|.*body.*') on a class attribute
DivClassRe(c) ==
    c # None /\ \E w \in {s_article, s_content, s_body} : Contains(c, w)

ImageExts ==
    { <<".", "j", "p", "g">>, <<".", "j", "p", "e", "g">>, <<".", "p", "n", "g">>,
      <<".", "g", "i", "f">>, <<".", "w", "e", "b", "p">> }

\* any(ext in image_url.lower() for ext in [...])
HasImageExt(url) == \E ext \in ImageExts : Contains(Lower(url), ext)

\* the elements of the parsed document in document order: a div, then its children
RECURSIVE Flatten(_)
Flatten(nodes) ==
    IF nodes = << >> THEN << >>
    ELSE LET n == Head(nodes)
         IN  (IF n.name = "div" THEN <<n>> \o n.kids ELSE <<n>>) \o Flatten(Tail(nodes))

IsImg(e) == e.name = "img"
IsClassImg(e) == e.name = "img" /\ ImgClassRe(e.class)
IsOgMeta(e) == e.name = "meta" /\ e.property = "og:image"
IsTwitterMeta(e) == e.name = "meta" /\ e.mname = "twitter:image"
IsClassDiv(e) == e.name = "div" /\ DivClassRe(e.class)

\* the selector of one soup.find call, applied to one element
Matches(e, selector) ==
    CASE selector = "img[class]" -> IsClassImg(e)
      [] selector = "meta[og:image]" -> IsOgMeta(e)
      [] selector = "meta[twitter:image]" -> IsTwitterMeta(e)
      [] selector = "div[class]" -> IsClassDiv(e)
      [] selector = "img" -> IsImg(e)

\* soup.find: the first element in document order that matches, or None
Find(elems, selector) ==
    IF \E i \in 1..Len(elems) : Matches(elems[i], selector)
    THEN elems[CHOOSE i \in 1..Len(elems) :
                 /\ Matches(elems[i], selector)
                 /\ \A j \in 1..(i - 1) : ~Matches(elems[j], selector)]
    ELSE NoTag

\* the list img_patterns
img_patterns(page) ==
    LET soup == Flatten(page)
        div == Find(soup, "div[class]")
    IN  << Find(soup, "img[class]"),
           Find(soup, "meta[og:image]"),
           Find(soup, "meta[twitter:image]"),
           IF div # NoTag THEN Find(div.kids, "img") ELSE NoTag,
           Find(soup, "img") >>

\* the text before the path of an absolute URL: scheme://netloc
RECURSIVE Origin(_, _, _)
Origin(url, i, slashes) ==
    IF i > Len(url) THEN url
    ELSE IF url[i] = "/" /\ slashes = 2 THEN SubSeq(url, 1, i - 1)
    ELSE Origin(url, i + 1, IF url[i] = "/" THEN slashes + 1 ELSE slashes)

\* urljoin(article_url, src) for a src that starts with one "/"
urljoin(article_url, src) == Origin(article_url, 1, 0) \o src

\* the if / elif / elif that assigns image_url; when no branch applies, image_url
\* keeps the value an earlier iteration gave it
NormalizeSrc(src, image_url, article_url) ==
    IF StartsWith(src, <<"/", "/">>) THEN s_https_colon \o src
    ELSE IF StartsWith(src, <<"/">>) THEN urljoin(article_url, src)
    ELSE IF StartsWith(src, s_http) THEN src
    ELSE image_url

\* the attribute the loop reads from a tag, or None when the tag is skipped
TagSrc(img_tag) ==
    IF img_tag.name = "img" THEN PyOr(img_tag.src, img_tag.data_src)
    ELSE IF img_tag.name = "meta" THEN img_tag.content
    ELSE None

\* the extension is looked for in src, not in the normalized image_url
accepts_src(image_url, src) == Truthy(image_url) /\ HasImageExt(src)

\* the test `image_url and any(ext in image_url.lower() ...)`, src being the
\* attribute image_url was computed from
accepts(image_url, src) == Truthy(image_url) /\ HasImageExt(image_url)

\* the for loop over img_patterns, from index i on, image_url as the loop left it
RECURSIVE ScanPatterns(_, _, _, _)
ScanPatterns(patterns, i, image_url, article_url) ==
    IF i > Len(patterns) THEN None
    ELSE LET img_tag == patterns[i]
         IN  IF img_tag = NoTag \/ ~Truthy(TagSrc(img_tag))
             THEN ScanPatterns(patterns, i + 1, image_url, article_url)
             ELSE LET url == NormalizeSrc(TagSrc(img_tag), image_url, article_url)
                  IN  IF accepts(url, TagSrc(img_tag))
                      THEN url
                      ELSE ScanPatterns(patterns, i + 1, url, article_url)

\* the except clauses of extract_image_from_article
locate_except(e) == Caught(e, {"RequestException", "Exception"})

\* extract_image_from_article(article_url), the page fetch answering `response`:
\* [raises |-> an exception class or NoExc, page |-> the parsed document].
\* The value is [raised |-> the exception that leaves the function or NoExc,
\* value |-> the value returned]
extract_image_from_article(article_url, response) ==
    LET body == IF response.raises # NoExc
                THEN [raised |-> response.raises, value |-> None]
                ELSE [raised |-> NoExc,
                      value |-> ScanPatterns(img_patterns(response.page), 1, None,
                                             article_url)]
    IN  IF body.raised # NoExc /\ locate_except(body.raised)
        THEN [raised |-> NoExc, value |-> None]
        ELSE body

-----------------------------------------------------------------------------
(* download_and_upload_image *)

s_image == <<"i", "m", "a", "g", "e">>
ct_png == <<"i", "m", "a", "g", "e", "/", "p", "n", "g">>
ct_jpeg == <<"i", "m", "a", "g", "e", "/", "j", "p", "e", "g">>
ct_xfoo == <<"i", "m", "a", "g", "e", "/", "x", "-", "f", "o", "o">>
ct_html == <<"t", "e", "x", "t", "/", "h", "t", "m", "l">>

\* mimetypes.guess_extension(content_type)
guess_extension(content_type) ==
    CASE content_type = ct_png -> <<".", "p", "n", "g">>
      [] content_type = ct_jpeg -> <<".", "j", "p", "g">>
      [] content_type = ct_html -> <<".", "h", "t", "m", "l">>
      [] OTHER -> None

\* the content type is not looked at
is_image_always(content_type) == TRUE

\* the test 'image' in content_type (the code returns None when it fails)
is_image(content_type) == Contains(content_type, s_image)

\* only the download's exceptions are caught
archive_except_requests(e) == Caught(e, {"RequestException"})

\* the except clauses of download_and_upload_image
archive_except(e) == Caught(e, {"RequestException", "ClientError", "Exception"})

\* s3_key and the CloudFront URL made of it
s3_key_of(uid, date, file_extension) ==
    <<"images/news/", date.year, date.month, date.day, uid, file_extension>>

cloudfront_url_of(s3_key) == <<"https://d3nvut5aamy17o.cloudfront.net/", s3_key>>

\* a failure of put_object is swallowed and the URL returned all the same
upload_result_unchecked(upload, s3_key) ==
    [raised |-> NoExc, value |-> cloudfront_url_of(s3_key), put_object |-> TRUE,
     s3_key |-> IF upload = NoExc THEN s3_key ELSE None]

\* s3_client.put_object(...) raising `upload` (or NoExc), and the lines after it
upload_result(upload, s3_key) ==
    IF upload # NoExc
    THEN [raised |-> upload, value |-> None, put_object |-> TRUE, s3_key |-> None]
    ELSE [raised |-> NoExc, value |-> cloudfront_url_of(s3_key),
          put_object |-> TRUE, s3_key |-> s3_key]

\* download_and_upload_image(image_url, uid) at date `date`; the download answers
\* `download` = [raises, content_type], put_object raises `upload` (or NoExc).
\* The value is [raised, value, put_object (was it invoked), s3_key (the key that
\* holds the object afterwards, or None)]
download_and_upload_image(image_url, uid, date, download, upload) ==
    LET content_type == download.content_type
        s3_key == s3_key_of(uid, date, PyOr(guess_extension(content_type),
                                              <<".", "j", "p", "g">>))
        body ==
            IF download.raises # NoExc
            THEN [raised |-> download.raises, value |-> None,
                  put_object |-> FALSE, s3_key |-> None]
            ELSE IF ~is_image(content_type)
            THEN [raised |-> NoExc, value |-> None,
                  put_object |-> FALSE, s3_key |-> None]
            ELSE upload_result(upload, s3_key)
    IN  IF body.raised # NoExc /\ archive_except(body.raised)
        THEN [body EXCEPT !.raised = NoExc, !.value = None]
        ELSE body

-----------------------------------------------------------------------------
(* datetime.now() and the uid *)

SuffixLen == 8

Digit(d) ==
    CASE d = 0 -> "0" [] d = 1 -> "1" [] d = 2 -> "2" [] d = 3 -> "3" [] d = 4 -> "4"
      [] d = 5 -> "5" [] d = 6 -> "6" [] d = 7 -> "7" [] d = 8 -> "8" [] d = 9 -> "9"

\* %m, %d, %H, %M, %S: two digits, zero padded
TwoDigits(n) == <<Digit((n \div 10) % 10), Digit(n % 10)>>

\* %Y
FourDigits(n) == TwoDigits(n \div 100) \o TwoDigits(n % 100)

\* the wall clock shows 2026-12-31 23:59:59 at second 0
EpochSecondOfDay == (23 * 3600) + (59 * 60) + 59

\* datetime.now() when the clock shows second t (the days after the first fall in
\* January 2027)
datetime_now(t) ==
    LET secs == EpochSecondOfDay + t
        days == secs \div 86400
        sod == secs % 86400
    IN  [year |-> IF days = 0 THEN 2026 ELSE 2027,
         month |-> IF days = 0 THEN 12 ELSE 1,
         day |-> IF days = 0 THEN 31 ELSE days,
         hour |-> sod \div 3600,
         minute |-> (sod % 3600) \div 60,
         second |-> sod % 60]

\* now.strftime('%Y%m%d_%H%M%S_')
strftime(now) ==
    FourDigits(now.year) \o TwoDigits(now.month) \o TwoDigits(now.day) \o <<"_">>
    \o TwoDigits(now.hour) \o TwoDigits(now.minute) \o TwoDigits(now.second) \o <<"_">>

\* uid = now.strftime(...) + str(uuid.uuid4())[:8]
make_uid(t, suffix) == strftime(datetime_now(t)) \o suffix

\* ord(c) of the characters a uid is made of
Ord(c) ==
    CASE c = "0" -> 48 [] c = "1" -> 49 [] c = "2" -> 50 [] c = "3" -> 51
      [] c = "4" -> 52 [] c = "5" -> 53 [] c = "6" -> 54 [] c = "7" -> 55
      [] c = "8" -> 56 [] c = "9" -> 57 [] c = "_" -> 95 [] c = "a" -> 97
      [] c = "b" -> 98 [] c = "c" -> 99 [] c = "d" -> 100 [] c = "e" -> 101
      [] c = "f" -> 102

\* a < b for Python strings
RECURSIVE StrLess(_, _)
StrLess(a, b) ==
    IF b = << >> THEN FALSE
    ELSE IF a = << >> THEN TRUE
    ELSE IF Head(a) = Head(b) THEN StrLess(Tail(a), Tail(b))
    ELSE Ord(Head(a)) < Ord(Head(b))

-----------------------------------------------------------------------------
(* Bounds and the inputs drawn from the environment *)

MaxItems == 2     \* items in one search result of a batch run
MaxNodes == 3     \* top-level elements of an article page given to the locator

\* the configured keyword list; two keywords, so that a keyword has a successor
keywords == <<"bitcoin", "ethereum">>

u_article == <<"h", "t", "t", "p", ":", "/", "/", "n", "/", "p">>
u_abs_jpg == <<"h", "t", "t", "p", ":", "/", "/", "h", "/", "a", ".", "j", "p", "g">>
u_abs_noext == <<"h", "t", "t", "p", ":", "/", "/", "h", "/", "e">>
u_prel_png == <<"/", "/", "h", "/", "b", ".", "P", "N", "G">>
u_root_gif == <<"/", "c", ".", "g", "i", "f">>
u_rel_webp == <<"d", ".", "w", "e", "b", "p">>
u_meta_jpeg == <<"h", "t", "t", "p", "s", ":", "/", "/", "h", "/", "m", ".", "j", "p", "e", "g">>
s_logo == <<"l", "o", "g", "o">>
s_nav == <<"n", "a", "v">>
s_main_photo == <<"m", "a", "i", "n", "-", "p", "h", "o", "t", "o">>
s_post_body == <<"p", "o", "s", "t", "-", "b", "o", "d", "y">>

\* a search result record without the key originallink
Absent == <<"Absent">>

\* search result records: link is the number of the article in the search result
RawItems ==
    { [originallink |-> o, link |-> 1] : o \in {Absent, EmptyStr, u_article} }

\* the first n records of the feed a batch run reads: every other one has no
\* originallink
Feed(n) ==
    [i \in 1..n |-> [originallink |-> IF i % 2 = 1 THEN u_article ELSE EmptyStr,
                     link |-> i]]

\* searches that fail: a transport exception, a 403, and a 500 whose body lists items
SearchFailures ==
    { [raises |-> "RequestException", status_code |-> 0, items |-> << >>],
      [raises |-> NoExc, status_code |-> 403, items |-> << >>],
      [raises |-> NoExc, status_code |-> 500, items |-> Feed(1)] }

\* what requests.get(url, ...) of the search API answers: in a batch run ...
BatchResponses ==
    SearchFailures
    \cup { [raises |-> NoExc, status_code |-> 200, items |-> Feed(n)] : n \in 0..MaxItems }

\* ... and in a run that looks at one item of any kind
SingleResponses ==
    SearchFailures
    \cup { [raises |-> NoExc, status_code |-> 200, items |-> << >>] }
    \cup { [raises |-> NoExc, status_code |-> 200, items |-> <<it>>] : it \in RawItems }

Img(class, src, data_src) ==
    [name |-> "img", class |-> class, src |-> src, data_src |-> data_src]
Meta(property, mname, content) ==
    [name |-> "meta", property |-> property, mname |-> mname, content |-> content]
Div(class, kids) == [name |-> "div", class |-> class, kids |-> kids]

ImgSrcs ==
    { <<None, None>>, <<EmptyStr, u_prel_png>>, <<u_abs_jpg, None>>,
      <<u_abs_noext, u_prel_png>>, <<u_rel_webp, None>>, <<u_root_gif, None>> }
Imgs == { Img(c, a[1], a[2]) : c \in {None, s_main_photo}, a \in ImgSrcs }
Metas ==
    { Meta(k[1], k[2], c) :
        k \in { <<"og:image", "">>, <<"", "twitter:image">> },
        c \in {None, u_meta_jpeg, u_abs_noext, u_rel_webp} }
DivKids ==
    { << >>, <<Img(None, u_abs_jpg, None)>>, <<Img(s_main_photo, u_rel_webp, None)>>,
      <<Img(s_logo, u_abs_noext, None)>> }
Divs == { Div(c, k) : c \in {s_post_body, s_nav}, k \in DivKids }

Nodes == Imgs \cup Metas \cup Divs

\* the article pages given to the locator when it is called directly
Pages == UNION { [1..n -> Nodes] : n \in 0..MaxNodes }

\* the article pages the publishers serve during a run
page_og == <<Meta("og:image", "", u_meta_jpeg)>>
Articles == { << >>, page_og }

\* what the fetch of an article page answers
ArticleResponses ==
    { [raises |-> e, page |-> << >>] : e \in {"Timeout", "HTTPError", "ParserError"} }
    \cup { [raises |-> NoExc, page |-> p] : p \in Articles }

\* what the download of an image answers
DownloadFails ==
    { [raises |-> e, content_type |-> EmptyStr] : e \in {"Timeout", "HTTPError"} }
DownloadImages ==
    { [raises |-> NoExc, content_type |-> c] : c \in {ct_png, ct_xfoo} }
DownloadOthers ==
    { [raises |-> NoExc, content_type |-> c] : c \in {ct_html, EmptyStr} }

\* what put_object and put_item raise
UploadOutcomes == {NoExc, "ClientError", "EndpointConnectionError"}
PutOutcomes == {NoExc, "ClientError", "EndpointConnectionError"}

\* what the article server, the image server and S3 answer for one item:
\* <<fetch, download, upload>>.  A server that is asked nothing is listed with one
\* answer only: an article that cannot be fetched or shows no image leads to no
\* download, and a download that fails or is no image leads to no upload.
ItemEnvs ==
    { <<f, [raises |-> "Timeout", content_type |-> EmptyStr], NoExc>> :
        f \in { r \in ArticleResponses : r.raises # NoExc \/ r.page = << >> } }
    \cup { <<f, d, NoExc>> :
        f \in { r \in ArticleResponses : r.raises = NoExc /\ r.page # << >> },
        d \in DownloadFails \cup DownloadOthers }
    \cup { <<f, d, u>> :
        f \in { r \in ArticleResponses : r.raises = NoExc /\ r.page # << >> },
        d \in DownloadImages, u \in UploadOutcomes }

\* in a batch run every article shows an image and every image is archived
BatchEnvs ==
    { <<[raises |-> NoExc, page |-> page_og],
        [raises |-> NoExc, content_type |-> ct_png], NoExc>> }

\* str(uuid.uuid4())[:8]
Suffixes == { [i \in 1..SuffixLen |-> c] : c \in {"3", "f"} }

-----------------------------------------------------------------------------
(* lambda_handler *)

SampleSize == 3

\* item.get('originallink', default)
ItemGet(item, default) ==
    IF item.originallink = Absent THEN default ELSE item.originallink

\* `if original_link is not None:`
has_link_not_none(original_link) == original_link # None

\* the test `if original_link:`
has_link(original_link) == Truthy(original_link)

\* the status code is not looked at
search_items_any_status(response) ==
    IF response.raises # NoExc THEN [raised |-> response.raises, items |-> << >>]
    ELSE [raised |-> NoExc, items |-> response.items]

\* the try around requests.get of the search: the items the for loop goes over,
\* or the exception raised
search_items(response) ==
    IF response.raises # NoExc THEN [raised |-> response.raises, items |-> << >>]
    ELSE IF response.status_code = 200 THEN [raised |-> NoExc, items |-> response.items]
    ELSE [raised |-> NoExc, items |-> << >>]

\* `except Exception` of the try around a keyword's work
outer_except(e) == Caught(e, {"Exception"})

\* `except ClientError` of the try around table.put_item
put_item_except(e) == Caught(e, {"ClientError"})

\* the except clause does not end with continue
reaches_append_always(put_raised) == TRUE

\* does control reach collected_news.append after the try around put_item:
\* the except clause ends with continue
reaches_append(put_raised) == put_raised = NoExc

NoDownload == [raises |-> NoExc, content_type |-> EmptyStr]
NotLocated == [raised |-> NoExc, value |-> None]
NotArchived == [raised |-> NoExc, value |-> None, put_object |-> FALSE, s3_key |-> None]

\* the body of `for item in items` for one item, the clock showing second t
process_item(keyword, item, t, suffix, fetch, download, upload, put) ==
    LET uid == make_uid(t, suffix)
        original_link == ItemGet(item, EmptyStr)
        locate_called == has_link(original_link)
        located == IF locate_called
                   THEN extract_image_from_article(original_link, fetch)
                   ELSE NotLocated
        image_url == located.value
        archive_called == locate_called /\ located.raised = NoExc /\ Truthy(image_url)
        archived == IF archive_called
                    THEN download_and_upload_image(image_url, uid, datetime_now(t),
                                                   download, upload)
                    ELSE NotArchived
        before_put == IF located.raised # NoExc THEN located.raised ELSE archived.raised
        news_item == [uid |-> uid, keyword |-> keyword, originallink |-> original_link,
                      link |-> item.link, image_url |-> image_url,
                      cloudfront_image_url |-> archived.value]
        put_called == before_put = NoExc
        put_raised == IF put_called THEN put ELSE NoExc
        escapes == put_raised # NoExc /\ ~put_item_except(put_raised)
        raised == IF before_put # NoExc THEN before_put
                  ELSE IF escapes THEN put_raised ELSE NoExc
    IN  [valid |-> TRUE, uid |-> uid, t |-> t, keyword |-> keyword,
         item |-> item,
         locate_called |-> locate_called,
         fetch |-> IF locate_called THEN fetch.raises ELSE NoExc,
         archive_called |-> archive_called,
         download |-> IF archive_called THEN download ELSE NoDownload,
         upload |-> IF archived.put_object THEN upload ELSE NoExc,
         archived |-> archived,
         news_item |-> news_item,
         put_called |-> put_called,
         put_raised |-> put_raised,
         appended |-> put_called /\ raised = NoExc /\ reaches_append(put_raised),
         raised |-> raised]

NoItem == [valid |-> FALSE]
NoResult == [statusCode |-> 0]
NoProbe == [called |-> FALSE]
NoQuery == [called |-> FALSE]

KwEntry == [search |-> "none", returned |-> 0, located |-> 0, archived |-> 0,
            puts |-> 0, put_failed |-> 0, counted |-> 0]

\* collected_news[:n]
Slice(s, n) == SubSeq(s, 1, IF Len(s) < n THEN Len(s) ELSE n)

\* table.put_item(Item=item): the item replaces what the table holds under its uid
put_item(table, item) == { r \in table : r.uid # item.uid } \cup {item}

\* an item an earlier run stored two seconds before second 0, image archived
old_uid == make_uid(0 - 2, [i \in 1..SuffixLen |-> "3"])
old_key == s3_key_of(old_uid, datetime_now(0 - 2), <<".", "p", "n", "g">>)
old_item ==
    [uid |-> old_uid, keyword |-> keywords[1], originallink |-> u_article, link |-> 1,
     image_url |-> u_meta_jpeg, cloudfront_image_url |-> cloudfront_url_of(old_key)]

\* the table is empty, or holds what an earlier run stored
Init ==
    /\ \/ store = {} /\ s3_objects = {}
       \/ store = {old_item} /\ s3_objects = {old_key}
    /\ clock = 0
    /\ pc = "idle"
    /\ ki = 1
    /\ items = << >>
    /\ collected_news = << >>
    /\ total_collected = 0
    /\ result = NoResult
    /\ kwlog = [k \in 1..Len(keywords) |-> KwEntry]
    /\ last = NoItem
    /\ generated = << >>
    /\ stored_log = << >>
    /\ probe = NoProbe
    /\ query = NoQuery

\* lambda_handler is invoked: the statements before the for loop over keywords
Invoke ==
    /\ pc = "idle"
    /\ pc' = "search"
    /\ ki' = 1
    /\ collected_news' = << >>
    /\ total_collected' = 0
    /\ UNCHANGED <<store, s3_objects, clock, items, result, kwlog, last, generated,
                   stored_log, probe, query>>

\* the search of keywords[ki], the search API answering one of `responses`
Search(responses) ==
    /\ pc = "search"
    /\ \E response \in responses :
         LET got == search_items(response)
         IN  /\ items' = got.items
             /\ pc' = IF got.raised # NoExc
                      THEN (IF outer_except(got.raised) THEN "sleep" ELSE "raised")
                      ELSE IF got.items = << >> THEN "sleep" ELSE "items"
             /\ kwlog' = [kwlog EXCEPT ![ki].search =
                              IF got.raised = NoExc /\ response.status_code = 200
                              THEN "ok" ELSE "failed",
                            ![ki].returned = Len(got.items)]
    /\ UNCHANGED <<store, s3_objects, clock, ki, collected_news,
                   total_collected, result, last, generated, stored_log, probe, query>>

\* one iteration of `for item in items`, the servers answering one of `envs`
ProcessItem(envs) ==
    /\ pc = "items"
    /\ items # << >>
    /\ \E suffix \in Suffixes, env \in envs, put \in PutOutcomes :
       \E did \in {process_item(keywords[ki], Head(items), clock, suffix,
                                env[1], env[2], env[3], put)} :
         LET stored == did.put_called /\ did.put_raised = NoExc
         IN  /\ store' = IF stored THEN put_item(store, did.news_item) ELSE store
             /\ s3_objects' = IF did.archived.s3_key # None
                              THEN s3_objects \cup {did.archived.s3_key}
                              ELSE s3_objects
             /\ collected_news' = IF did.appended
                                  THEN Append(collected_news, did.news_item)
                                  ELSE collected_news
             /\ total_collected' = IF did.appended
                                   THEN total_collected + 1 ELSE total_collected
             /\ items' = IF did.raised = NoExc THEN Tail(items) ELSE << >>
             /\ pc' = IF did.raised # NoExc
                      THEN (IF outer_except(did.raised) THEN "sleep" ELSE "raised")
                      ELSE IF Tail(items) = << >> THEN "sleep" ELSE "items"
             /\ last' = did
             /\ generated' = Append(generated, <<did.uid, did.t>>)
             /\ stored_log' = IF stored THEN Append(stored_log, did.news_item)
                              ELSE stored_log
             /\ kwlog' = [kwlog EXCEPT
                   ![ki].located = @ + (IF did.locate_called THEN 1 ELSE 0),
                   ![ki].archived = @ + (IF did.archive_called THEN 1 ELSE 0),
                   ![ki].puts = @ + (IF did.put_called THEN 1 ELSE 0),
                   ![ki].put_failed = @ + (IF did.put_raised # NoExc THEN 1 ELSE 0),
                   ![ki].counted = @ + (IF did.appended THEN 1 ELSE 0)]
    /\ UNCHANGED <<clock, ki, result, probe, query>>

\* time.sleep(1) at the end of a keyword, then the next keyword or the end of the loop
Sleep ==
    /\ pc = "sleep"
    /\ clock' = clock + 1
    /\ IF ki < Len(keywords)
       THEN ki' = ki + 1 /\ pc' = "search"
       ELSE ki' = ki /\ pc' = "return"
    /\ items' = << >>
    /\ UNCHANGED <<store, s3_objects, collected_news, total_collected, result,
                   kwlog, last, generated, stored_log, probe, query>>

\* the result is built and returned
Return ==
    /\ pc = "return"
    /\ result' = [statusCode |-> 200,
                  total_collected |-> total_collected,
                  keywords_searched |-> keywords,
                  sample_news |-> IF collected_news # << >>
                                  THEN Slice(collected_news, SampleSize) ELSE << >>]
    /\ pc' = "returned"
    /\ UNCHANGED <<store, s3_objects, clock, ki, items, collected_news,
                   total_collected, kwlog, last, generated, stored_log, probe, query>>

\* a batch run: search results of up to MaxItems items, the image servers working
Next ==
    \/ Invoke
    \/ Search(BatchResponses)
    \/ ProcessItem(BatchEnvs)
    \/ Sleep
    \/ Return

Spec == Init /\ [][Next]_vars

\* a run over search results of at most one item, of any kind, the article server,
\* the image server and S3 answering in every way
NextItem ==
    \/ Invoke
    \/ Search(SingleResponses)
    \/ ProcessItem(ItemEnvs)
    \/ Sleep
    \/ Return

SpecItem == Init /\ [][NextItem]_vars

\* extract_image_from_article is called on an article page whose fetch succeeded
Locate ==
    /\ ~probe.called
    /\ \E page \in Pages :
         probe' = [called |-> TRUE, page |-> page,
                   returned |-> extract_image_from_article(
                                    u_article, [raises |-> NoExc, page |-> page])]
    /\ UNCHANGED <<store, s3_objects, clock, pc, ki, items, collected_news,
                   total_collected, result, kwlog, last, generated, stored_log, query>>

NextLocate == Locate

InitLocate == Init /\ store = {}

SpecLocate == InitLocate /\ [][NextLocate]_vars

-----------------------------------------------------------------------------
(* get_news_from_dynamodb *)

MaxStored == 4    \* records earlier runs may have left in the table
MaxLimit == 3     \* greatest limit a read is called with

\* the record a run stored for its item at second t (t < 0: before this read)
stored_item(t, suffix) ==
    [uid |-> make_uid(t, suffix), keyword |-> keywords[1],
     originallink |-> u_article, link |-> 0 - t,
     image_url |-> None, cloudfront_image_url |-> None]

\* what earlier runs may have stored: one record per second, the suffix of a
\* later record smaller than that of an earlier one on alternate seconds
StoredBefore ==
    { stored_item(0 - k, [i \in 1..SuffixLen |-> IF k % 2 = 0 THEN "3" ELSE "f"]) :
        k \in 1..MaxStored }

\* ProjectionExpression: the attributes of a record the scan returns
Projection(r) ==
    [uid |-> r.uid, keyword |-> r.keyword, originallink |-> r.originallink,
     image_url |-> r.image_url]

Min(a, b) == IF a < b THEN a ELSE b

\* table.scan(Limit=limit): the pages a Scan may return.  The table is keyed by
\* uid alone, so Scan walks it in the order of the hash of the key, an order the
\* caller does not control; Limit stops the walk after limit records.
scan_pages(table, limit) ==
    { page \in SUBSET table : Cardinality(page) = Min(limit, Cardinality(table)) }

ScanOutcomes == {NoExc, "ClientError", "EndpointConnectionError"}

\* sorted(items, key=lambda x: x.get('uid', ''), reverse=True); the uids of a
\* page are distinct, so the result does not depend on the order of the page
RECURSIVE sorted_desc(_)
sorted_desc(page) ==
    IF page = {} THEN << >>
    ELSE LET top == CHOOSE r \in page : \A o \in page : ~StrLess(r.uid, o.uid)
         IN  <<top>> \o sorted_desc(page \ {top})

\* except ClientError
query_except(e) == Caught(e, {"ClientError"})

\* get_news_from_dynamodb(limit), the scan returning page or raising outcome
get_news_from_dynamodb(page, outcome) ==
    IF outcome = NoExc
    THEN LET response_items == { Projection(r) : r \in page }
             sorted_items == sorted_desc(response_items)
         IN  [raised |-> NoExc, statusCode |-> 200,
              total_items |-> Len(sorted_items), news_items |-> sorted_items]
    ELSE IF query_except(outcome)
    THEN [raised |-> NoExc, statusCode |-> 500, total_items |-> 0,
          news_items |-> << >>]
    ELSE [raised |-> outcome, statusCode |-> 0, total_items |-> 0,
          news_items |-> << >>]

\* get_news_from_dynamodb is called on the table as it stands
GetNews ==
    /\ ~query.called
    /\ \E limit \in 1..MaxLimit, outcome \in ScanOutcomes :
         \E page \in scan_pages(store, limit) :
            query' = [called |-> TRUE, limit |-> limit,
                      returned |-> get_news_from_dynamodb(page, outcome)]
    /\ UNCHANGED <<store, s3_objects, clock, pc, ki, items, collected_news,
                   total_collected, result, kwlog, last, generated, stored_log,
                   probe>>

NextRead == GetNews

\* the table holds any set of the records earlier runs may have stored
InitRead ==
    /\ store \in SUBSET StoredBefore
    /\ s3_objects = {}
    /\ clock = 0
    /\ pc = "idle"
    /\ ki = 1
    /\ items = << >>
    /\ collected_news = << >>
    /\ total_collected = 0
    /\ result = NoResult
    /\ kwlog = [k \in 1..Len(keywords) |-> KwEntry]
    /\ last = NoItem
    /\ generated = << >>
    /\ stored_log = << >>
    /\ probe = NoProbe
    /\ query = NoQuery

SpecRead == InitRead /\ [][NextRead]_vars

-----------------------------------------------------------------------------
(* The claims *)

\* keyword k's iteration of the outer for loop is over
Finished(k) == k < ki \/ (k = ki /\ pc \in {"sleep", "return", "returned"})

CdnOf(item) == item.cloudfront_image_url

\* content types that do not indicate an image
NonImageTypes == {ct_html, EmptyStr}

LocateFailed == last.locate_called /\ last.fetch # NoExc
ArchiveFailed ==
    /\ last.archive_called
    /\ \/ last.download.raises # NoExc
       \/ last.download.content_type \in NonImageTypes
       \/ last.upload # NoExc

\* C1: a keyword whose search failed (exception or non-200 status) has no item
\* located, archived or put and adds nothing to collected_news / total_collected;
\* no exception leaves lambda_handler; and when the loop is over every keyword
\* of the list has been searched.
C1_SearchFailureSkipsKeyword ==
    /\ pc # "raised"
    /\ \A k \in 1..Len(keywords) :
         kwlog[k].search = "failed" =>
            /\ kwlog[k].located = 0
            /\ kwlog[k].archived = 0
            /\ kwlog[k].puts = 0
            /\ kwlog[k].counted = 0
            /\ \A i \in 1..Len(collected_news) :
                 collected_news[i].keyword # keywords[k]
    /\ pc \in {"return", "returned"} =>
         \A k \in 1..Len(keywords) : kwlog[k].search # "none"

\* the first keyword's search failed, the second was searched and its items stored
C1_Witness ==
    /\ pc = "returned"
    /\ kwlog[1].search = "failed"
    /\ kwlog[2].search = "ok"
    /\ kwlog[2].counted > 0
    /\ result.total_collected = kwlog[2].counted

\* C2: when put_item fails for an item, whatever it raises, only that item is
\* dropped: every item of the keyword's search result is still put, and all
\* but the failed ones are counted.
C2_PutFailureDropsOnlyThatItem ==
    \A k \in 1..Len(keywords) :
        (Finished(k) /\ kwlog[k].search = "ok" /\ kwlog[k].put_failed > 0) =>
            /\ kwlog[k].puts = kwlog[k].returned
            /\ kwlog[k].counted = kwlog[k].returned - kwlog[k].put_failed

\* C3: a failure of the locate stage or of the archive stage does not abort the
\* item: put_item is called for it, with image_url and cloudfront_image_url
\* unset when locate failed and cloudfront_image_url unset when archive failed,
\* and the item is appended and counted when the put succeeds.
C3_ImageFailuresAreSoft ==
    (last.valid /\ (LocateFailed \/ ArchiveFailed)) =>
        /\ last.put_called
        /\ LocateFailed => /\ last.news_item.image_url = None
                           /\ CdnOf(last.news_item) = None
        /\ ArchiveFailed => CdnOf(last.news_item) = None
        /\ last.put_raised = NoExc =>
              /\ last.appended
              /\ collected_news # << >>
              /\ collected_news[Len(collected_news)] = last.news_item
              /\ total_collected = Len(collected_news)
              /\ last.news_item \in store

\* the upload of an item's image failed with ClientError and the item was stored
C3_Witness ==
    /\ last.valid
    /\ last.archive_called
    /\ last.upload = "ClientError"
    /\ last.put_raised = NoExc
    /\ last.news_item \in store
    /\ total_collected > 0

\* C4: in every record given to put_item and every record of the table,
\* cloudfront_image_url is set only if image_url is set and the archive step
\* uploaded the object the URL names.
C4_CdnUrlImpliesArchivedImage ==
    /\ \A r \in store :
         CdnOf(r) # None =>
            /\ r.image_url # None
            /\ \E k \in s3_objects : CdnOf(r) = cloudfront_url_of(k)
    /\ (last.valid /\ last.put_called /\ CdnOf(last.news_item) # None) =>
            /\ last.news_item.image_url # None
            /\ last.archive_called
            /\ last.archived.put_object
            /\ last.upload = NoExc
            /\ \E k \in s3_objects : CdnOf(last.news_item) = cloudfront_url_of(k)

\* this run stored a record with a CDN URL
C4_Witness ==
    /\ last.valid
    /\ last.news_item \in store
    /\ CdnOf(last.news_item) # None

\* C5: for an item whose originallink is empty or missing neither
\* extract_image_from_article nor download_and_upload_image is called, and the
\* record put has image_url and cloudfront_image_url unset.
C5_NoLinkNoImageCalls ==
    (last.valid /\ last.item.originallink \in {Absent, EmptyStr}) =>
        /\ ~last.locate_called
        /\ ~last.archive_called
        /\ ~last.archived.put_object
        /\ last.put_called
        /\ last.news_item.image_url = None
        /\ CdnOf(last.news_item) = None

\* an item without the key originallink was stored
C5_Witness ==
    /\ last.valid
    /\ last.item.originallink = Absent
    /\ last.news_item \in store

\* C6: the uids generated in one run are pairwise distinct, and of two uids
\* generated in different clock seconds the earlier one is the smaller string.
C6_UidsDistinctAndOrdered ==
    \A i, j \in 1..Len(generated) :
        i < j =>
            /\ generated[i][1] # generated[j][1]
            /\ generated[i][2] < generated[j][2] =>
                  StrLess(generated[i][1], generated[j][1])

\* C7: a record stored under a uid is never changed or replaced afterwards.
C7_StoredRecordsWriteOnce == [][\A r \in store : r \in store']_vars

\* C8: the returned total_collected is the number of items put_item stored in
\* this run, and sample_news is the first min(3, total_collected) of them, in
\* the order they were stored.
C8_SummaryCountsStoredItems ==
    pc = "returned" =>
        /\ result.total_collected = Len(stored_log)
        /\ result.sample_news =
              SubSeq(stored_log, 1, IF Len(stored_log) < 3 THEN Len(stored_log) ELSE 3)

\* a run returned after it stored more items than the sample holds
C8_Witness ==
    /\ pc = "returned"
    /\ result.total_collected > 3
    /\ Len(result.sample_news) = 3

\* the element strategy n looks at (1: class-matched img, 2: og:image meta,
\* 3: twitter:image meta, 4: first img in the first class-matched container,
\* 5: first img anywhere)
StrategyTag(page, n) ==
    LET soup == Flatten(page)
    IN  CASE n = 1 -> Find(soup, "img[class]")
          [] n = 2 -> Find(soup, "meta[og:image]")
          [] n = 3 -> Find(soup, "meta[twitter:image]")
          [] n = 4 -> (IF Find(soup, "div[class]") = NoTag THEN NoTag
                       ELSE Find(Find(soup, "div[class]").kids, "img"))
          [] n = 5 -> Find(soup, "img")

\* the normalized URL of strategy n taken alone, None when it has none
StrategyUrl(page, n) ==
    LET tag == StrategyTag(page, n)
    IN  IF tag = NoTag \/ ~Truthy(TagSrc(tag)) THEN None
        ELSE NormalizeSrc(TagSrc(tag), None, u_article)

StrategyAccepted(page, n) ==
    StrategyUrl(page, n) # None /\ HasImageExt(StrategyUrl(page, n))

FirstAccepted(page) ==
    CHOOSE n \in 1..5 :
        StrategyAccepted(page, n) /\ \A m \in 1..(n - 1) : ~StrategyAccepted(page, m)

\* C9: after a successful fetch extract_image_from_article returns the
\* normalized URL of the lowest-numbered strategy whose element exists and
\* whose normalized URL is accepted, whatever the earlier strategies found, and
\* None when no strategy has an accepted URL.
C9_FirstAcceptedStrategyWins ==
    probe.called =>
        /\ probe.returned.raised = NoExc
        /\ probe.returned.value =
              IF \E n \in 1..5 : StrategyAccepted(probe.page, n)
              THEN StrategyUrl(probe.page, FirstAccepted(probe.page))
              ELSE None

\* an earlier strategy had a rejected URL, a later one a URL that cannot be
\* normalized, and a strategy after both won
C9_Witness ==
    /\ probe.called
    /\ \E n \in 1..5 : StrategyAccepted(probe.page, n)
    /\ probe.returned.value # None
    /\ \E a, b \in 1..5 :
         /\ a < b
         /\ b < FirstAccepted(probe.page)
         /\ StrategyUrl(probe.page, a) # None
         /\ StrategyTag(probe.page, b) # NoTag
         /\ Truthy(TagSrc(StrategyTag(probe.page, b)))
         /\ HasImageExt(TagSrc(StrategyTag(probe.page, b)))
         /\ StrategyUrl(probe.page, b) = None

\* C10: download_and_upload_image, given a response whose content type does not
\* indicate an image, returns None without invoking put_object; it returns a
\* CDN URL only after put_object was invoked and succeeded.
C10_NonImageNeverUploaded ==
    (last.valid /\ last.archive_called) =>
        /\ (last.download.raises = NoExc
              /\ last.download.content_type \in NonImageTypes) =>
                 /\ last.archived.value = None
                 /\ ~last.archived.put_object
                 /\ last.archived.s3_key = None
        /\ last.archived.value # None =>
                 /\ last.archived.put_object
                 /\ last.upload = NoExc
                 /\ last.archived.s3_key \in s3_objects
                 /\ last.archived.value = cloudfront_url_of(last.archived.s3_key)

\* the image server answered text/html and nothing was uploaded
C10_Witness ==
    /\ last.valid
    /\ last.archive_called
    /\ last.download.raises = NoExc
    /\ last.download.content_type = ct_html
    /\ last.archived.value = None

\* the uids of the records a read returned, in the order returned
ReturnedUids == [i \in 1..Len(query.returned.news_items) |->
                    query.returned.news_items[i].uid]

\* the read returned its items in strictly descending uid order
ReturnedDescending ==
    \A i \in 1..(Len(ReturnedUids) - 1) : StrLess(ReturnedUids[i + 1], ReturnedUids[i])

\* the records of the table with the greatest uids, limit of them at most
GreatestUids(table, limit) ==
    { r.uid : r \in { r \in table :
        Cardinality({ o \in table : StrLess(r.uid, o.uid) }) < limit } }

\* C11: for a store holding any set of records and any limit >= 1, a read that
\* succeeds returns at most limit items in descending uid order, and the items
\* it returns are the records with the greatest uids in the store.
C11_ReadReturnsMostRecent ==
    (query.called /\ query.returned.raised = NoExc /\ query.returned.statusCode = 200) =>
        /\ Len(query.returned.news_items) <= query.limit
        /\ ReturnedDescending
        /\ { ReturnedUids[i] : i \in 1..Len(ReturnedUids) }
              = GreatestUids(store, query.limit)

====
